---- MODULE Spec2Model ----
(***************************************************************************)
(* The chat client of chat-with-your-docs-rag (frontend/src/App.jsx): its  *)
(* React state, its event handlers and the asynchronous continuations of   *)
(* its fetches, together with the backend boundary the handlers talk to.   *)
(* The backend is not part of the sources at hand; its index operations    *)
(* follow the design document (sections 4.2, 4.4, 4.6 and 5).              *)
(*                                                                         *)
(* Conventions.  A JavaScript string is a sequence of one-character (or    *)
(* one-token) strings, so that trim() and template literals are computed.  *)
(* null is the empty tuple where the other values are one-element tuples   *)
(* (Null / Some).  State updates made by one synchronous run of a handler  *)
(* or continuation are batched by React into one render, so such a run is  *)
(* one action; the effects that depend on the changed state (lines 55-57,  *)
(* 69-85) run with that render and are part of the action.  The fields id  *)
(* (uid()) and ts (Date.now()) of a message are read by no handler and are *)
(* left out of the message records; uid() calls are counted in made.       *)
(***************************************************************************)
EXTENDS Integers, Sequences, FiniteSets, Bags, TLC

\* ------------------------------------------------------------------ bounds
MaxTasks == 2
MaxMade == 2
MaxLines == 1
MaxStored == 14
SysEvery == 5

\* ------------------------------------------------------- program constants
HistoryLimit == 12
TOP_K == 5
TopKCap == 20

\* -------------------------------------------------------------- input sets
Files == {"a.txt", "b.txt"}
FileOrder == <<"a.txt", "b.txt">>
ChunksOf(f) == IF f = "a.txt" THEN 2 ELSE 1
NoFile == ""
\* the files the user has at hand for the file input
Picks == {"a.txt"}

\* what the user can have in the composer: "", " " and " q "
Inputs == { <<>>, <<" ">>, <<" ", "q", " ">> }

Null == <<>>
Some(x) == <<x>>

\* ------------------------------------------------------------ pure helpers
RECURSIVE TrimStart(_)
TrimStart(s) == IF s # <<>> /\ Head(s) = " " THEN TrimStart(Tail(s)) ELSE s

RECURSIVE TrimEnd(_)
TrimEnd(s) == IF s # <<>> /\ s[Len(s)] = " " THEN TrimEnd(SubSeq(s, 1, Len(s) - 1)) ELSE s

\* String.prototype.trim
Trim(s) == TrimEnd(TrimStart(s))

\* prev.filter((x) => x !== fileName)
Without(s, x) == SelectSeq(s, LAMBDA y : y # x)

\* Array.prototype.slice(-n)
SliceLast(s, n) == IF Len(s) <= n THEN s ELSE SubSeq(s, Len(s) - n + 1, Len(s))

Includes(s, x) == \E i \in 1..Len(s) : s[i] = x

\* `${n}` for a number
Str(n) == ToString(n)

\* ------------------------------------------------------------------- state
VARIABLES
  file, uploadMsg, uploading,
  docs, docsLoading, selectedFiles,
  input, loading, backendOk, chunksIndexed,
  messages, messagesRef,
  mounted, made, storage,
  tasks,
  dialog,
  index, lock, cursor, staged

vars == << file, uploadMsg, uploading, docs, docsLoading, selectedFiles,
           input, loading, backendOk, chunksIndexed, messages, messagesRef,
           mounted, made, storage, tasks, dialog, index, lock, cursor, staged >>

\* every variable but dialog
others == << file, uploadMsg, uploading, docs, docsLoading, selectedFiles,
             input, loading, backendOk, chunksIndexed, messages, messagesRef,
             mounted, made, storage, tasks, index, lock, cursor, staged >>

\* ---------------------------------------------------------------- messages
UserMsg(q) == [role |-> "user", content |-> q]
AssistantMsg(a, s) == [role |-> "assistant", content |-> a, sources |-> s]
SystemMsg(c) == [role |-> "system", content |-> c]

\* ------------------------------------------------------------ localStorage
\* a stored item: absent, or a text that JSON.parse accepts (value) or rejects
Absent == [present |-> FALSE, valid |-> FALSE, value |-> <<>>]
Unparsable == [present |-> TRUE, valid |-> FALSE, value |-> <<>>]
\* JSON.stringify of an array of strings, numbers and plain objects
Stringify(v) == [present |-> TRUE, valid |-> TRUE, value |-> v]

\* a history an earlier session stored: n messages, every sysEvery-th a system
\* line, the others alternating user and assistant
StoredMsg(i, sysEvery) ==
  IF sysEvery > 0 /\ i % sysEvery = 0 THEN SystemMsg(<<"h", Str(i)>>)
  ELSE IF i % 2 = 1 THEN UserMsg(<<"h", Str(i)>>)
  ELSE AssistantMsg(<<"h", Str(i)>>, <<>>)
StoredHist(n, sysEvery) == [i \in 1..n |-> StoredMsg(i, sysEvery)]

StoredHistories ==
  { Absent, Unparsable,
    Stringify(StoredHist(MaxStored - 1, SysEvery)),
    Stringify(StoredHist(MaxStored, SysEvery)) }

StoredSelections == { Absent, Unparsable, Stringify(<<"b.txt", "a.txt">>) }

\* ------------------------------------------------------------- the backend
\* documents() : the indexed documents with their chunk counts
RECURSIVE ListFrom(_, _)
ListFrom(ix, names) ==
  IF names = <<>> THEN <<>>
  ELSE (IF ix[Head(names)] > 0
          THEN << [file_name |-> Head(names), chunks |-> ix[Head(names)]] >>
          ELSE <<>>) \o ListFrom(ix, Tail(names))
ListDocuments(ix) == ListFrom(ix, FileOrder)

\* count()
RECURSIVE CountFrom(_, _)
CountFrom(ix, names) ==
  IF names = <<>> THEN 0 ELSE ix[Head(names)] + CountFrom(ix, Tail(names))
CountChunks(ix) == CountFrom(ix, FileOrder)

InitialIndexes ==
  { [f \in Files |-> IF f = "a.txt" THEN ChunksOf(f) ELSE 0] }

\* ---------------------------------------------------- requests and answers
NullFiles == [null |-> TRUE, items |-> <<>>]
ListOfFiles(s) == [null |-> FALSE, items |-> s]

NoReq == [message |-> <<>>, top_k |-> 0, history |-> <<>>, selected_files |-> NullFiles]
\* an answer: the status (ok), what res.json() makes of the body (kind: "obj" an
\* object with the fields of the operation, "empty" an object without them such
\* as an error detail, "null" the JSON null, "garbage" no JSON) and res.text()
NoResp == [ok |-> FALSE, kind |-> "none", num |-> 0, name |-> <<>>,
           files |-> <<>>, answer |-> <<>>, sources |-> <<>>, text |-> <<>>]

\* an asynchronous activation of a handler, waiting on the fetch of `stage`
NewTask(op, stage, arg, req) ==
  [op |-> op, stage |-> stage, net |-> "sent", arg |-> arg, req |-> req, resp |-> NoResp]
NextStage(t, stage) ==
  [t EXCEPT !.stage = stage, !.net = "sent", !.req = NoReq, !.resp = NoResp]

Running == BagToSet(tasks)
NTasks == BagCardinality(tasks)
Add(u) == tasks (+) SetToBag({u})
Remove(t) == tasks (-) SetToBag({t})
Replace(t, u) == (tasks (-) SetToBag({t})) (+) SetToBag({u})
NumStage(b, stage) == BagCardinality([t \in {u \in BagToSet(b) : u.stage = stage} |-> b[t]])

\* --------------------------------------------------------- window.confirm
\* the last dialog of window.confirm and the answer the user gave
NoDialog == [shown |-> FALSE, kind |-> "", about |-> NoFile, ok |-> FALSE]
Answered(kind, about, ok) == [shown |-> TRUE, kind |-> kind, about |-> about, ok |-> ok]

\* ------------------------------------------------------------ initial state
\* an initialiser that does not read the stored selection
InitialSelection_Empty(item) == <<>>

\* useState initialisers (lines 21-52); selectedFiles is read from localStorage
InitialSelection(item) ==
  IF item.present /\ item.valid THEN item.value ELSE <<>>

Init ==
  /\ file = NoFile
  /\ uploadMsg = <<>>
  /\ uploading = FALSE
  /\ docs = <<>>
  /\ docsLoading = FALSE
  /\ storage \in [history : StoredHistories, selected : StoredSelections]
  /\ selectedFiles = InitialSelection(storage.selected)
  /\ input = <<>>
  /\ loading = FALSE
  /\ backendOk = TRUE
  /\ chunksIndexed = Null
  /\ messages = <<>>
  /\ messagesRef = <<>>
  /\ mounted = FALSE
  /\ made = 0
  /\ tasks = EmptyBag
  /\ index \in InitialIndexes
  /\ dialog = NoDialog
  /\ lock = [f \in Files |-> FALSE]
  /\ cursor = [f \in Files |-> 0]
  /\ staged = [f \in Files |-> 0]

\* --------------------------------------------------------- render and effects
\* One render after a batch of updates: the effects on [messages] copy the list
\* into messagesRef and persist it, the effect on [selectedFiles] persists the
\* selection.  mSet / sSet: the batch called setMessages / setSelectedFiles.
\* localStorage takes the writes: setItem does not throw.
Render(mSet, m, sSet, sel) ==
  /\ messages' = m
  /\ messagesRef' = m
  /\ selectedFiles' = sel
  /\ storage' = [history |-> IF mSet THEN Stringify(m) ELSE storage.history,
                 selected |-> IF sSet THEN Stringify(sel) ELSE storage.selected]

NoRender == UNCHANGED << dialog, messages, messagesRef, selectedFiles, storage >>

\* a load effect that runs after the persist effect has stored the empty list
LoadedHistory_AfterPersist(item) == <<>>

\* the effects of the first commit (lines 55-99) and the render they cause
LoadedHistory(item) ==
  IF item.present /\ item.valid THEN item.value ELSE <<>>

Mount ==
  /\ ~mounted
  /\ mounted' = TRUE
  /\ Render(TRUE, LoadedHistory(storage.history), TRUE, selectedFiles)
  /\ docsLoading' = TRUE
  /\ tasks' = SetToBag({ NewTask("health", "health", NoFile, NoReq) })
                (+) SetToBag({ NewTask("docs", "docs", NoFile, NoReq) })
  /\ UNCHANGED << dialog, file, uploadMsg, uploading, docs, input, loading, backendOk,
                  chunksIndexed, made, index, lock, cursor, staged >>

\* ------------------------------------------------------------ user handlers
DocNames == [i \in 1..Len(docs) |-> docs[i].file_name]

\* the composer's textarea (lines 555-567)
SetInput(v) ==
  /\ mounted /\ backendOk
  /\ v # input
  /\ input' = v
  /\ NoRender
  /\ UNCHANGED << dialog, file, uploadMsg, uploading, docs, docsLoading, loading, backendOk,
                  chunksIndexed, mounted, made, tasks, index, lock, cursor, staged >>

\* the file input (line 417)
SetFile(f) ==
  /\ mounted
  /\ f # file
  /\ file' = f
  /\ NoRender
  /\ UNCHANGED << dialog, uploadMsg, uploading, docs, docsLoading, input, loading, backendOk,
                  chunksIndexed, mounted, made, tasks, index, lock, cursor, staged >>

SelectionStep(sel) ==
  /\ Render(FALSE, messages, TRUE, sel)
  /\ UNCHANGED << dialog, file, uploadMsg, uploading, docs, docsLoading, input, loading,
                  backendOk, chunksIndexed, mounted, made, tasks, index, lock, cursor, staged >>

Toggled(prev, fileName) ==
  IF Includes(prev, fileName) THEN Without(prev, fileName)
  ELSE prev \o <<fileName>>

toggleSelected(fileName) ==
  /\ mounted /\ Includes(DocNames, fileName)
  /\ SelectionStep(Toggled(selectedFiles, fileName))

clearSelection ==
  /\ mounted /\ Len(selectedFiles) # 0
  /\ SelectionStep(<<>>)

selectAll ==
  /\ mounted /\ Len(docs) # 0
  /\ SelectionStep(DocNames)

selectOnly(fileName) ==
  /\ mounted /\ Includes(DocNames, fileName)
  /\ SelectionStep(<<fileName>>)

\* lines 357-366; the effect on [messages] then stores the empty list again
resetChat ==
  /\ mounted
  /\ Render(TRUE, <<>>, FALSE, selectedFiles)
  /\ input' = <<>>
  /\ uploadMsg' = <<>>
  /\ UNCHANGED << dialog, file, uploading, docs, docsLoading, loading, backendOk,
                  chunksIndexed, mounted, made, tasks, index, lock, cursor, staged >>

\* ------------------------------------------------------------------- send()
canSend == Len(Trim(input)) > 0 /\ ~loading /\ backendOk

\* send() without the test of the trimmed input
SendRefused_NoEmptyTest(q) == loading \/ ~backendOk

\* send() without the test of loading
SendRefused_NoLoadingTest(q) == q = <<>> \/ ~backendOk

\* line 292: the early return
SendRefused(q) == q = <<>> \/ loading \/ ~backendOk

IsChatRole(m) == m.role = "user" \/ m.role = "assistant"

\* line 306
RoleAndContent(ms) ==
  [i \in 1..Len(ms) |-> [role |-> ms[i].role, content |-> ms[i].content]]

\* the history without slice(-12)
History_NoSlice(nextMessages) ==
  RoleAndContent(SelectSeq(nextMessages, IsChatRole))

\* lines 303-306
History(nextMessages) ==
  RoleAndContent(SliceLast(SelectSeq(nextMessages, IsChatRole), HistoryLimit))

\* the selection sent as it is, empty or not
SelectedFilesParam_AlwaysList(sel) == ListOfFiles(sel)

\* line 308
SelectedFilesParam(sel) == IF Len(sel) > 0 THEN ListOfFiles(sel) ELSE NullFiles

\* lines 316-321
ChatRequest(q, nextMessages, sel) ==
  [message |-> q, top_k |-> TOP_K, history |-> History(nextMessages),
   selected_files |-> SelectedFilesParam(sel)]

\* send() is reached by the Send button (enabled when canSend) and by Enter in
\* the textarea (enabled when backendOk)
send ==
  /\ mounted
  /\ canSend \/ backendOk
  /\ LET q == Trim(input)
         nextMessages == messagesRef \o << UserMsg(q) >>
     IN IF SendRefused(q) THEN UNCHANGED vars
        ELSE /\ NTasks < MaxTasks
             /\ made < MaxMade
             /\ Render(TRUE, nextMessages, FALSE, selectedFiles)
             /\ input' = <<>>
             /\ loading' = TRUE
             /\ made' = made + 1
             /\ tasks' = Add(NewTask("send", "chat", NoFile,
                                     ChatRequest(q, nextMessages, selectedFiles)))
             /\ UNCHANGED << dialog, file, uploadMsg, uploading, docs, docsLoading, backendOk,
                             chunksIndexed, mounted, index, lock, cursor, staged >>

\* ------------------------------------------- uploadFile, deleteDoc, clearIndex
\* lines 159-172
uploadFile ==
  /\ mounted
  /\ IF file = NoFile \/ uploading THEN UNCHANGED vars
     ELSE /\ NTasks < MaxTasks
          /\ made < MaxLines
          /\ uploading' = TRUE
          /\ uploadMsg' = << "Uploading..." >>
          /\ tasks' = Add(NewTask("upload", "upload", file, NoReq))
          /\ NoRender
          /\ UNCHANGED << dialog, file, docs, docsLoading, input, loading, backendOk,
                          chunksIndexed, mounted, made, index, lock, cursor, staged >>

\* a handler that goes on whatever the answer
Declined_Never(ok) == FALSE

\* lines 207 and 251: if (!ok) return
Declined(ok) == ~ok

\* lines 204-214; ok is the answer to window.confirm
deleteDoc(fileName, ok) ==
  /\ mounted /\ Includes(DocNames, fileName)
  /\ IF fileName = NoFile THEN UNCHANGED vars
     ELSE /\ dialog' = Answered("delete", fileName, ok)
          /\ IF Declined(ok) THEN UNCHANGED others
             ELSE /\ NTasks < MaxTasks
                  /\ made < MaxLines
                  /\ tasks' = Add(NewTask("delete", "delete", fileName, NoReq))
                  /\ UNCHANGED << file, uploadMsg, uploading, docs, docsLoading,
                                  selectedFiles, input, loading, backendOk, chunksIndexed,
                                  messages, messagesRef, mounted, made, storage,
                                  index, lock, cursor, staged >>

\* lines 249-254
clearIndex(ok) ==
  /\ mounted
  /\ dialog' = Answered("clear", NoFile, ok)
  /\ IF Declined(ok) THEN UNCHANGED others
     ELSE /\ NTasks < MaxTasks
          /\ made < MaxLines
          /\ tasks' = Add(NewTask("clear", "clear", NoFile, NoReq))
          /\ UNCHANGED << file, uploadMsg, uploading, docs, docsLoading,
                          selectedFiles, input, loading, backendOk, chunksIndexed,
                          messages, messagesRef, mounted, made, storage,
                          index, lock, cursor, staged >>

\* the Refresh docs button (line 396) and lines 122-125
refreshDocsClick ==
  /\ mounted /\ ~docsLoading
  /\ NTasks < MaxTasks
  /\ docsLoading' = TRUE
  /\ tasks' = Add(NewTask("docs", "docs", NoFile, NoReq))
  /\ NoRender
  /\ UNCHANGED << dialog, file, uploadMsg, uploading, docs, input, loading, backendOk,
                  chunksIndexed, mounted, made, index, lock, cursor, staged >>

\* setInterval(refreshHealth, 8000) (line 96)
healthTick ==
  /\ mounted
  /\ NTasks < MaxTasks
  /\ tasks' = Add(NewTask("health", "health", NoFile, NoReq))
  /\ NoRender
  /\ UNCHANGED << dialog, file, uploadMsg, uploading, docs, docsLoading, input, loading,
                  backendOk, chunksIndexed, mounted, made, index, lock, cursor, staged >>

\* ------------------------------------------------- continuations of a fetch
\* What ends the await of a fetch stage: "abort" (the timer of fetchWithTimeout
\* fired), "error" (fetch or the body read rejected), "status" (refreshHealth
\* throws on a non-OK status) and "body" (res.json() / res.text() settled).

\* the try block throws
Threw(ev, r) == ev \in {"abort", "error", "status"} \/ r.kind \in {"null", "garbage"}

\* String(e)
ExceptionText(ev, r) ==
  IF ev = "error" THEN "TypeError: Failed to fetch"
  ELSE IF ev = "status" THEN "Error: health not ok"
  ELSE IF r.kind = "null" THEN "TypeError: Cannot read properties of null"
  ELSE "SyntaxError: Unexpected token"

\* e?.name === "AbortError" ? timeoutText : String(e)
CatchText(ev, r, timeoutText) ==
  IF ev = "abort" THEN << timeoutText >> ELSE << ExceptionText(ev, r) >>

\* refreshHealth whose catch block leaves chunksIndexed as it was
HealthResult_KeepsChunks(ev, r) ==
  IF Threw(ev, r) THEN [ok |-> FALSE, chunks |-> chunksIndexed]
  ELSE [ok |-> TRUE, chunks |-> IF r.kind = "obj" THEN Some(r.num) ELSE Null]

\* refreshHealth (lines 109-120): the values it sets
HealthResult(ev, r) ==
  IF Threw(ev, r) THEN [ok |-> FALSE, chunks |-> Null]
  ELSE [ok |-> TRUE, chunks |-> IF r.kind = "obj" THEN Some(r.num) ELSE Null]

\* refreshHealth is the last await of every handler: its end runs the handler's
\* finally block (lines 199-201, 352-354)
HealthSettle(t, ev) ==
  LET h == HealthResult(ev, t.resp)
      waiting == [t EXCEPT !.resp = IF ev = "status" THEN NoResp ELSE t.resp]
  IN /\ backendOk' = h.ok
     /\ chunksIndexed' = h.chunks
     /\ loading' = IF t.op = "send" THEN FALSE ELSE loading
     /\ uploading' = IF t.op = "upload" THEN FALSE ELSE uploading
     /\ tasks' = Remove(waiting)
     /\ NoRender
     /\ UNCHANGED << dialog, file, uploadMsg, docs, docsLoading, input, mounted, made, index, lock, cursor, staged >>

\* refreshDocs (lines 122-137): the status is not looked at
DocsReceived(ev, r) == ~Threw(ev, r)
ReceivedFiles(r) == IF r.kind = "obj" THEN r.files ELSE <<>>
Pruned(prev, files) ==
  SelectSeq(prev, LAMBDA f : \E i \in 1..Len(files) : files[i].file_name = f)

DocsSettle(t, ev) ==
  LET files == ReceivedFiles(t.resp)
  IN /\ IF DocsReceived(ev, t.resp)
          THEN /\ docs' = files
               /\ Render(FALSE, messages, TRUE, Pruned(selectedFiles, files))
          ELSE /\ docs' = docs
               /\ NoRender
     /\ docsLoading' = FALSE
     /\ tasks' = IF t.op = "docs" THEN Remove(t) ELSE Replace(t, NextStage(t, "health"))
     /\ UNCHANGED << dialog, file, uploadMsg, uploading, input, loading, backendOk, chunksIndexed,
                     mounted, made, index, lock, cursor, staged >>

\* send (lines 326-351): the assistant message appended
ChatReply(ev, r) ==
  IF ev = "body" /\ ~r.ok THEN AssistantMsg(<< "Error:" >> \o r.text, <<>>)
  ELSE IF Threw(ev, r)
    THEN AssistantMsg(<< "Error:" >> \o CatchText(ev, r, "Timeout: backend ne repond pas."), <<>>)
  ELSE AssistantMsg(IF r.kind = "obj" THEN r.answer ELSE <<>>,
                    IF r.kind = "obj" THEN r.sources ELSE <<>>)

\* a catch block that also runs after the answer was appended
ChatAppended_Twice(ev, r) == << ChatReply(ev, r), ChatReply(ev, r) >>

\* the messages appended when the chat fetch ends
ChatAppended(ev, r) == << ChatReply(ev, r) >>

ChatSettle(t, ev) ==
  LET returns == ev = "body" /\ ~t.resp.ok
      added == ChatAppended(ev, t.resp)
  IN /\ Render(TRUE, messages \o added, FALSE, selectedFiles)
     /\ made' = made + Len(added)
     /\ loading' = IF returns THEN FALSE ELSE loading
     /\ tasks' = IF returns THEN Remove(t) ELSE Replace(t, NextStage(t, "health"))
     /\ UNCHANGED << dialog, file, uploadMsg, uploading, docs, docsLoading, input, backendOk,
                     chunksIndexed, mounted, index, lock, cursor, staged >>

\* `${data.file_name}` and `${data.chunks_indexed}` of a parsed body
NameOf(r) == IF r.kind = "obj" THEN r.name ELSE << "undefined" >>
NumOf(r) == IF r.kind = "obj" THEN << Str(r.num) >> ELSE << "undefined" >>

\* uploadFile (lines 174-201)
UploadReport(ev, r) ==
  IF ev = "body" /\ ~r.ok THEN << "Upload failed:" >> \o r.text
  ELSE IF Threw(ev, r)
    THEN << "Upload failed:" >> \o CatchText(ev, r, "Timeout upload (backend ne repond pas).")
  ELSE << "Uploaded:" >> \o NameOf(r) \o << "(chunks:" >> \o NumOf(r)

\* the system line appended whatever the outcome
UploadAppended_Always(ev, r) ==
  << SystemMsg(<< "Document indexe:" >> \o NameOf(r) \o << "(chunks:" >> \o NumOf(r)) >>

UploadAppended(ev, r) ==
  IF (ev = "body" /\ ~r.ok) \/ Threw(ev, r) THEN <<>>
  ELSE << SystemMsg(<< "Document indexe:" >> \o NameOf(r) \o << "(chunks:" >> \o NumOf(r)) >>

UploadSettle(t, ev) ==
  LET r == t.resp
      returns == ev = "body" /\ ~r.ok
      added == UploadAppended(ev, r)
  IN /\ uploadMsg' = UploadReport(ev, r)
     /\ IF added # <<>> THEN Render(TRUE, messages \o added, FALSE, selectedFiles)
                        ELSE NoRender
     /\ made' = made + Len(added)
     /\ uploading' = IF returns THEN FALSE ELSE uploading
     /\ docsLoading' = IF added # <<>> THEN TRUE ELSE docsLoading
     /\ tasks' = IF returns THEN Remove(t)
                 ELSE IF added # <<>> THEN Replace(t, NextStage(t, "docs"))
                 ELSE Replace(t, NextStage(t, "health"))
     /\ UNCHANGED << dialog, file, docs, input, loading, backendOk, chunksIndexed, mounted,
                     index, lock, cursor, staged >>

\* deleteDoc (lines 216-246) and clearIndex (lines 256-286): the system line
RemovalLine(stage, ev, r) ==
  LET what == IF stage = "delete" THEN "suppression" ELSE "clear index"
  IN IF ev = "body" /\ ~r.ok THEN SystemMsg(<< "Erreur", what >> \o r.text)
     ELSE IF Threw(ev, r)
       THEN SystemMsg(<< "Erreur", what >>
                        \o CatchText(ev, r, IF stage = "delete"
                                               THEN "Timeout suppression (backend ne repond pas)."
                                               ELSE "Timeout clear index (backend ne repond pas)."))
     ELSE IF stage = "delete"
       THEN SystemMsg(<< "Document supprime:" >> \o NameOf(r) \o << "(chunks supprimes:" >> \o NumOf(r))
     ELSE SystemMsg(<< "Index vide", "(chunks supprimes:" >> \o NumOf(r))

\* a handler that takes every outcome for a success
RemovalSucceeded_Always(ev, r) == TRUE

RemovalSucceeded(ev, r) == ~(ev = "body" /\ ~r.ok) /\ ~Threw(ev, r)

\* lines 236 and 276
SelectionAfterRemoval(t, prev) ==
  IF t.stage = "delete" THEN Without(prev, t.arg) ELSE <<>>

RemovalSettle(t, ev) ==
  LET r == t.resp
      returns == ev = "body" /\ ~r.ok
      done == RemovalSucceeded(ev, r)
  IN /\ Render(TRUE, messages \o << RemovalLine(t.stage, ev, r) >>,
               done, IF done THEN SelectionAfterRemoval(t, selectedFiles) ELSE selectedFiles)
     /\ made' = made + 1
     /\ docsLoading' = IF done THEN TRUE ELSE docsLoading
     /\ tasks' = IF returns THEN Remove(t)
                 ELSE IF done THEN Replace(t, NextStage(t, "docs"))
                 ELSE Replace(t, NextStage(t, "health"))
     /\ UNCHANGED << dialog, file, uploadMsg, uploading, docs, input, loading, backendOk,
                     chunksIndexed, mounted, index, lock, cursor, staged >>

Settle(t, ev) ==
  CASE t.stage = "health" -> HealthSettle(t, ev)
    [] t.stage = "docs" -> DocsSettle(t, ev)
    [] t.stage = "chat" -> ChatSettle(t, ev)
    [] t.stage = "upload" -> UploadSettle(t, ev)
    [] t.stage \in {"delete", "clear"} -> RemovalSettle(t, ev)

\* --------------------------------------------------------- fetchWithTimeout
\* lines 13-17: the timer is armed when the request leaves and cleared when the
\* promise of fetch settles, that is once the status line and headers are in
TimerArmed(t) == t.net \in {"sent", "proc"}

\* setTimeout(() => controller.abort(), timeoutMs) fires
Timeout ==
  \E t \in Running : TimerArmed(t) /\ Settle(t, "abort")

\* the connection fails, before or while the body is read
NetworkError ==
  \E t \in Running : Settle(t, "error")

\* the promise of fetch resolves with the response r: refreshHealth throws on
\* a non-OK status, every other caller goes on to read the body
Deliver(t, r) ==
  IF t.stage = "health" /\ ~r.ok THEN Settle([t EXCEPT !.resp = r], "status")
  ELSE /\ tasks' = Replace(t, [t EXCEPT !.net = "body", !.resp = r])
       /\ NoRender
       /\ UNCHANGED << dialog, file, uploadMsg, uploading, docs, docsLoading, input, loading,
                       backendOk, chunksIndexed, mounted, made >>

\* res.json() / res.text() resolves
Body ==
  \E t \in Running : t.net = "body" /\ Settle(t, "body")

\* ------------------------------------------------------------- the backend
\* The answers of the boundary operations of the design document, section 6.
OkBody == [NoResp EXCEPT !.ok = TRUE, !.kind = "obj"]
Rejected(errorName) == [NoResp EXCEPT !.ok = FALSE, !.kind = "empty", !.text = << errorName >>]

\* answers of a backend or a proxy in trouble: an error status with a JSON
\* detail, and an OK status with a body that is no JSON or lacks the fields
Misbehaviours ==
  { Rejected("IndexUnavailableError"),
    [NoResp EXCEPT !.ok = TRUE, !.kind = "garbage"],
    [NoResp EXCEPT !.ok = TRUE, !.kind = "empty"] }

\* health() -> {chunks_indexed}
ServeHealth ==
  \E t \in Running :
    /\ t.stage = "health" /\ t.net = "sent"
    /\ Deliver(t, [OkBody EXCEPT !.num = CountChunks(index)])
    /\ UNCHANGED << dialog, index, lock, cursor, staged >>

\* documents() -> [{file_name, chunks}]
ServeDocs ==
  \E t \in Running :
    /\ t.stage = "docs" /\ t.net = "sent"
    /\ Deliver(t, [OkBody EXCEPT !.files = ListDocuments(index)])
    /\ UNCHANGED << dialog, index, lock, cursor, staged >>

\* section 4.3: null or empty selected_files searches the whole index
RECURSIVE ChunkRefs(_, _)
ChunkRefs(f, n) ==
  IF n = 0 THEN <<>> ELSE ChunkRefs(f, n - 1) \o << [file |-> f, chunk |-> n - 1] >>

RECURSIVE ScopedRefs(_, _, _)
ScopedRefs(ix, sel, names) ==
  IF names = <<>> THEN <<>>
  ELSE (IF sel.null \/ sel.items = <<>> \/ Includes(sel.items, Head(names))
          THEN ChunkRefs(Head(names), ix[Head(names)])
          ELSE <<>>) \o ScopedRefs(ix, sel, Tail(names))

Retrieve(ix, top_k, sel) ==
  LET refs == ScopedRefs(ix, sel, FileOrder)
  IN IF Len(refs) <= top_k THEN refs ELSE SubSeq(refs, 1, top_k)

\* section 4.5: answer(question, top_k, history, selected_files)
ValidQuery(req) == Len(req.message) > 0 /\ req.top_k >= 1 /\ req.top_k <= TopKCap

ChatAnswer(ix, req) ==
  IF ~ValidQuery(req) THEN Rejected("ValidationError")
  ELSE [OkBody EXCEPT !.answer = << "answer" >>,
                      !.sources = Retrieve(ix, req.top_k, req.selected_files)]

ServeChat ==
  \E t \in Running :
    /\ t.stage = "chat" /\ t.net = "sent"
    /\ Deliver(t, ChatAnswer(index, t.req))
    /\ UNCHANGED << dialog, index, lock, cursor, staged >>

\* section 4.4 and 5: ingest(file_name, raw_text) runs under the lock of
\* file_name; an existing file_name is rejected
IsDuplicate(ix, f) == ix[f] > 0

BeginIngest ==
  \E t \in Running :
    /\ t.stage = "upload" /\ t.net = "sent"
    /\ ~lock[t.arg]
    /\ IF IsDuplicate(index, t.arg)
         THEN /\ Deliver(t, Rejected("DuplicateDocumentError"))
              /\ UNCHANGED << dialog, index, lock, cursor, staged >>
         ELSE /\ tasks' = Replace(t, [t EXCEPT !.net = "proc"])
              /\ lock' = [lock EXCEPT ![t.arg] = TRUE]
              /\ cursor' = [cursor EXCEPT ![t.arg] = 0]
              /\ staged' = [staged EXCEPT ![t.arg] = 0]
              /\ NoRender
              /\ UNCHANGED << dialog, file, uploadMsg, uploading, docs, docsLoading, input, loading,
                              backendOk, chunksIndexed, mounted, made, index >>

\* the next chunk of the document is embedded and written, not yet visible
EmbedChunk ==
  \E f \in Files :
    /\ lock[f] /\ cursor[f] < ChunksOf(f)
    /\ cursor' = [cursor EXCEPT ![f] = cursor[f] + 1]
    /\ staged' = [staged EXCEPT ![f] = staged[f] + 1]
    /\ NoRender
    /\ UNCHANGED << dialog, file, uploadMsg, uploading, docs, docsLoading, input, loading,
                    backendOk, chunksIndexed, mounted, made, tasks, index, lock >>

\* the client of an ingest, unless it gave up
Waiting(f) == { t \in Running : t.stage = "upload" /\ t.net = "proc" /\ t.arg = f }

IngestEnds(f, r) ==
  /\ lock' = [lock EXCEPT ![f] = FALSE]
  /\ cursor' = [cursor EXCEPT ![f] = 0]
  /\ staged' = [staged EXCEPT ![f] = 0]
  /\ IF Waiting(f) = {}
       THEN /\ tasks' = tasks
            /\ NoRender
            /\ UNCHANGED << dialog, file, uploadMsg, uploading, docs, docsLoading, input, loading,
                            backendOk, chunksIndexed, mounted, made >>
       ELSE Deliver(CHOOSE w \in Waiting(f) : TRUE, r)

\* section 4.2: insert is atomic per document: the written chunks of the
\* document become visible together
Inserted(ix, st, f) == [ix EXCEPT ![f] = ix[f] + st[f]]

CommitIngest ==
  \E f \in Files :
    /\ lock[f] /\ cursor[f] = ChunksOf(f)
    /\ index' = Inserted(index, staged, f)
    /\ IngestEnds(f, [OkBody EXCEPT !.name = << f >>, !.num = staged[f]])

\* extraction, chunking or embedding failed: what was written is rolled back
FailIngest ==
  \E f \in Files :
    /\ lock[f]
    /\ index' = index
    /\ IngestEnds(f, Rejected("EmbeddingError"))

\* a delete that takes no lock
DeleteMayRun_NoLock(f) == TRUE

\* section 5: a delete waits for an ingest of the same file_name
DeleteMayRun(f) == ~lock[f]

\* delete_document(file_name) -> count deleted: every chunk of file_name goes
ServeDelete ==
  \E t \in Running :
    /\ t.stage = "delete" /\ t.net = "sent"
    /\ DeleteMayRun(t.arg)
    /\ index' = [index EXCEPT ![t.arg] = 0]
    /\ staged' = [staged EXCEPT ![t.arg] = 0]
    /\ Deliver(t, [OkBody EXCEPT !.name = << t.arg >>,
                                 !.num = index[t.arg] + staged[t.arg]])
    /\ UNCHANGED << dialog, lock, cursor >>

\* the index is shared: another client of the backend deletes a document
ForeignDelete ==
  \E f \in Files :
    /\ index[f] > 0
    /\ DeleteMayRun(f)
    /\ index' = [index EXCEPT ![f] = 0]
    /\ staged' = [staged EXCEPT ![f] = 0]
    /\ NoRender
    /\ UNCHANGED << dialog, file, uploadMsg, uploading, docs, docsLoading, input, loading,
                    backendOk, chunksIndexed, mounted, made, tasks, lock, cursor >>

\* clear() -> count deleted, exclusive over the whole index
ServeClear ==
  \E t \in Running :
    /\ t.stage = "clear" /\ t.net = "sent"
    /\ \A f \in Files : ~lock[f]
    /\ index' = [f \in Files |-> 0]
    /\ Deliver(t, [OkBody EXCEPT !.num = CountChunks(index)])
    /\ UNCHANGED << dialog, lock, cursor, staged >>

\* any request can meet a backend in trouble
ServeError ==
  \E t \in Running, r \in Misbehaviours :
    /\ t.net = "sent"
    /\ Deliver(t, r)
    /\ UNCHANGED << dialog, index, lock, cursor, staged >>

\* ------------------------------------------------------------ specification
Next ==
  \/ Mount
  \/ \E v \in Inputs : SetInput(v)
  \/ \E f \in Picks \cup {NoFile} : SetFile(f)
  \/ \E f \in Files : toggleSelected(f)
  \/ clearSelection
  \/ selectAll
  \/ \E f \in Files : selectOnly(f)
  \/ resetChat
  \/ send
  \/ uploadFile
  \/ \E f \in Files, ok \in BOOLEAN : deleteDoc(f, ok)
  \/ \E ok \in BOOLEAN : clearIndex(ok)
  \/ refreshDocsClick
  \/ healthTick
  \/ Timeout
  \/ NetworkError
  \/ Body
  \/ ServeHealth
  \/ ServeDocs
  \/ ServeChat
  \/ BeginIngest
  \/ EmbedChunk
  \/ CommitIngest
  \/ FailIngest
  \/ ServeDelete
  \/ ForeignDelete
  \/ ServeClear
  \/ ServeError

Spec == Init /\ [][Next]_vars

\* The composer, the selection and the health probe: the handlers that decide
\* what a chat request carries and when it is issued.
ChatNext ==
  \/ Mount
  \/ \E v \in Inputs : SetInput(v)
  \/ \E f \in Files : toggleSelected(f)
  \/ clearSelection
  \/ selectAll
  \/ \E f \in Files : selectOnly(f)
  \/ resetChat
  \/ send
  \/ healthTick
  \/ Timeout
  \/ NetworkError
  \/ Body
  \/ ServeHealth
  \/ ServeDocs
  \/ ServeChat
  \/ ServeError

ChatSpec == Init /\ [][ChatNext]_vars

\* The timers of fetchWithTimeout and the interval of line 96 are kept by the
\* browser's event loop: an armed timer fires unless it is cleared, the
\* interval keeps ticking.  Nothing is assumed of the backend or the network.
Ops == {"health", "docs", "send", "upload", "delete", "clear"}
TimeoutOf(op) ==
  \E t \in Running : t.op = op /\ TimerArmed(t) /\ Settle(t, "abort")

FairChatSpec ==
  /\ ChatSpec
  /\ \A op \in Ops : WF_vars(TimeoutOf(op))
  /\ WF_vars(healthTick)

\* The index under upload and delete.
IndexNext ==
  \/ Mount
  \/ \E f \in Picks \cup {NoFile} : SetFile(f)
  \/ uploadFile
  \/ \E f \in Files, ok \in BOOLEAN : deleteDoc(f, ok)
  \/ Timeout
  \/ Body
  \/ ServeHealth
  \/ ServeDocs
  \/ BeginIngest
  \/ EmbedChunk
  \/ CommitIngest
  \/ FailIngest
  \/ ServeDelete
  \/ ForeignDelete

\* a session that starts with nothing stored
IndexInit == Init /\ storage.history = Absent /\ storage.selected = Absent

IndexSpec == IndexInit /\ [][IndexNext]_vars

\* The documents list and the selection.
DocsNext ==
  \/ Mount
  \/ \E f \in Files : toggleSelected(f)
  \/ clearSelection
  \/ selectAll
  \/ \E f \in Files : selectOnly(f)
  \/ \E f \in Files, ok \in BOOLEAN : deleteDoc(f, ok)
  \/ refreshDocsClick
  \/ Timeout
  \/ NetworkError
  \/ Body
  \/ ServeHealth
  \/ ServeDocs
  \/ ServeDelete
  \/ ServeError

DocsInit == Init /\ storage.history = Absent

DocsSpec == DocsInit /\ [][DocsNext]_vars

\* The selection under every handler that changes it, and the two destructive
\* operations with their dialogs.
SelectionNext ==
  \/ Mount
  \/ \E f \in Files : toggleSelected(f)
  \/ clearSelection
  \/ selectAll
  \/ \E f \in Files : selectOnly(f)
  \/ \E f \in Files, ok \in BOOLEAN : deleteDoc(f, ok)
  \/ \E ok \in BOOLEAN : clearIndex(ok)
  \/ Timeout
  \/ NetworkError
  \/ Body
  \/ ServeHealth
  \/ ServeDocs
  \/ ServeDelete
  \/ ServeClear
  \/ ServeError

SelectionSpec == DocsInit /\ [][SelectionNext]_vars

\* ================================================================== claims
\* A step of send() that issues a chat request, and the request it issued.
Issued(t) ==
  /\ t.stage = "chat" /\ t.net = "sent"
  /\ CopiesIn(t, tasks') > CopiesIn(t, tasks)

\* positions of the user and assistant messages of a list
ChatPositions(ms) == { i \in 1..Len(ms) : ms[i].role \in {"user", "assistant"} }
Minimum(a, b) == IF a <= b THEN a ELSE b

\* h is the last HistoryLimit (or fewer) user and assistant messages of ms,
\* in their order
IsRecentHistory(h, ms) ==
  LET P == ChatPositions(ms)
      K == Cardinality(P)
  IN /\ Len(h) = Minimum(K, HistoryLimit)
     /\ \A i \in P :
          LET j == Cardinality({ k \in P : k <= i }) - (K - Len(h))
          IN j >= 1 => h[j] = [role |-> ms[i].role, content |-> ms[i].content]

C1_Request(t) ==
  LET h == t.req.history
  IN /\ Len(h) <= HistoryLimit
     /\ Len(h) >= 1
     /\ \A j \in 1..Len(h) : h[j].role \in {"user", "assistant"}
     /\ h[Len(h)] = [role |-> "user", content |-> t.req.message]

\* C1: every chat request carries at most 12 history entries, never a system
\* message, ending with the question being sent; when send() issues it, they
\* are the last 12 (or fewer) user and assistant messages of the message list,
\* in their order.
C1_HistoryBounded ==
  /\ [](\A t \in Running : t.stage = "chat" => C1_Request(t))
  /\ [][\A t \in BagToSet(tasks') : Issued(t) => IsRecentHistory(t.req.history, messages')]_vars

\* a request in flight whose history was cut: the list holds 13 user and
\* assistant messages besides system lines, the request carries 12
C1_Witness ==
  \E t \in Running :
    /\ t.stage = "chat"
    /\ Len(t.req.history) = HistoryLimit
    /\ Cardinality(ChatPositions(messages)) = HistoryLimit + 1
    /\ \E i \in 1..Len(messages) : messages[i].role = "system"

\* lines 375-378
scopeLabel(sel) ==
  IF Len(sel) = 0 THEN << "Recherche: tous les documents" >>
  ELSE << "Recherche:", Str(Len(sel)), "doc(s) selectionne(s)" >>

\* C2: a request carries selected_files = null exactly when nothing is
\* selected (the scope label then reads "tous les documents"), otherwise the
\* non-empty selection itself; an empty list is never sent, and the backend
\* searches the whole index for a null.
C2_SelectedFiles ==
  /\ [](\A t \in Running : t.stage = "chat" =>
          /\ t.req.selected_files.null \/ Len(t.req.selected_files.items) > 0
          /\ t.req.selected_files.null =>
               Retrieve(index, t.req.top_k, t.req.selected_files)
                 = Retrieve(index, t.req.top_k, ListOfFiles(FileOrder)))
  /\ [][\A t \in BagToSet(tasks') : Issued(t) =>
          /\ t.req.selected_files.null <=> selectedFiles = <<>>
          /\ t.req.selected_files.null
               <=> scopeLabel(selectedFiles) = << "Recherche: tous les documents" >>
          /\ ~t.req.selected_files.null => t.req.selected_files.items = selectedFiles]_vars

\* a request sent with nothing selected while documents are listed
C2_Witness ==
  \E t \in Running :
    /\ t.stage = "chat" /\ t.req.selected_files.null
    /\ selectedFiles = <<>> /\ docs # <<>>

\* C3: send() issues no request when the trimmed input is empty; the message
\* sent is the trimmed, non-empty input and top_k is 5, within 1..20.
C3_ValidRequest ==
  /\ [](\A t \in Running : t.stage = "chat" =>
          /\ Len(t.req.message) > 0
          /\ Head(t.req.message) # " " /\ t.req.message[Len(t.req.message)] # " "
          /\ t.req.top_k = 5
          /\ t.req.top_k >= 1 /\ t.req.top_k <= TopKCap
          /\ ValidQuery(t.req))
  /\ [][\A t \in BagToSet(tasks') : Issued(t) =>
          /\ \E i \in 1..Len(input) : input[i] # " "
          /\ \E a, b \in 0..Len(input) :
               /\ Len(input) = a + Len(t.req.message) + b
               /\ \A i \in 1..Len(input) :
                    IF i <= a \/ i > a + Len(t.req.message) THEN input[i] = " "
                    ELSE input[i] = t.req.message[i - a]]_vars

\* the padded input " q " went out as "q"
C3_Witness ==
  \E t \in Running : t.stage = "chat" /\ t.net = "sent" /\ t.req.message = << "q" >>

\* C6: send() issues a chat request only when backendOk is true and loading is
\* false; at most one chat request is in flight, and one in flight keeps
\* loading true.
C6_SendGated ==
  /\ [](NumStage(tasks, "chat") <= 1)
  /\ [](NumStage(tasks, "chat") = 1 => loading)
  /\ [][\A t \in BagToSet(tasks') : Issued(t) => backendOk /\ ~loading]_vars

\* a request in flight while the health probe has since reported the backend down
C6_Witness ==
  NumStage(tasks, "chat") = 1 /\ loading /\ ~backendOk

\* C4: after send() the loading flag eventually returns to false, whatever
\* the backend does.
C4_NoHang == loading ~> ~loading

\* a step that ends the wait of a health probe, and the probe
HealthEnded(t) ==
  /\ mounted
  /\ t.stage = "health"
  /\ CopiesIn(t, tasks') < CopiesIn(t, tasks)
  /\ NumStage(tasks', "health") < NumStage(tasks, "health")

\* C5: the end of a health probe records backendOk = false with chunksIndexed
\* = null when the probe failed (timeout, network error, non-OK status,
\* unparsable body) and backendOk = true with chunksIndexed a number or null
\* when it succeeded, and the handler awaiting it goes on to its finally block;
\* in every state backendOk = false implies chunksIndexed = null.
C5_HealthDegraded ==
  /\ [](~backendOk => chunksIndexed = Null)
  /\ [](chunksIndexed = Null \/ \E n \in 0..CountChunks([f \in Files |-> ChunksOf(f)]) :
                                   chunksIndexed = Some(n))
  /\ [][\A t \in BagToSet(tasks) : HealthEnded(t) =>
          /\ backendOk' \in BOOLEAN
          /\ (t.net = "sent" \/ ~t.resp.ok \/ t.resp.kind \in {"garbage", "null"})
               => ~backendOk' /\ chunksIndexed' = Null
          /\ backendOk' =>
               /\ t.net = "body" /\ t.resp.ok
               /\ chunksIndexed' = IF t.resp.kind = "obj" THEN Some(t.resp.num) ELSE Null
          /\ t.op = "send" => ~loading'
          /\ NTasks' = NTasks - 1]_vars

\* the backend is marked down while two more probes are in flight
C5_Witness ==
  /\ ~backendOk /\ chunksIndexed = Null
  /\ NumStage(tasks, "health") = 2

\* a step that ends the fetch of a chat request, and the request
ChatEnded(t) ==
  /\ t.stage = "chat"
  /\ CopiesIn(t, tasks') < CopiesIn(t, tasks)
  /\ NumStage(tasks', "chat") < NumStage(tasks, "chat")

Assistants(ms) == Cardinality({ i \in 1..Len(ms) : ms[i].role = "assistant" })

C7_NoPartialChunks ==
  /\ [](\A f \in Files : index[f] \in {0, ChunksOf(f)})
  /\ [](\A t \in Running :
          (t.stage = "delete" /\ t.net = "body" /\ t.resp.ok)
            => t.resp.num \in {0, ChunksOf(t.arg)})
  /\ [][\A f \in Files :
          (lock[f] /\ lock'[f]) => index'[f] = index[f] /\ staged'[f] >= staged[f]]_vars

\* deleteDoc started while uploadFile is in flight: the delete of a.txt waits
\* for the ingest of a.txt, which has written one of its two chunks
C7_Witness ==
  /\ uploading
  /\ lock["a.txt"] /\ staged["a.txt"] = 1 /\ index["a.txt"] = 0
  /\ \E u, d \in Running :
       /\ u.stage = "upload" /\ u.net = "proc" /\ u.arg = "a.txt"
       /\ d.stage = "delete" /\ d.net = "sent" /\ d.arg = "a.txt"

\* a step that ends the fetch of an upload, and the upload
UploadEnded(t) ==
  /\ t.stage = "upload"
  /\ CopiesIn(t, tasks') < CopiesIn(t, tasks)
  /\ NumStage(tasks', "upload") < NumStage(tasks, "upload")

\* the backend answers the upload t
UploadAnswered(t, u) ==
  /\ t.stage = "upload" /\ t.net \in {"sent", "proc"}
  /\ CopiesIn(t, tasks') < CopiesIn(t, tasks)
  /\ u.stage = "upload" /\ u.net = "body" /\ u.arg = t.arg
  /\ CopiesIn(u, tasks') > CopiesIn(u, tasks)

\* C8: the upload of a file_name that is indexed is answered with a
\* DuplicateDocumentError, never ingested, and the chunks of the document stay
\* as they are; the client then shows "Upload failed: ..." and appends no
\* message.
C8_DuplicateRejected ==
  /\ [][\A t \in BagToSet(tasks) :
          (t.stage = "upload" /\ t.net = "sent" /\ IsDuplicate(index, t.arg)) =>
            /\ CopiesIn([t EXCEPT !.net = "proc"], tasks')
                 <= CopiesIn([t EXCEPT !.net = "proc"], tasks)
            /\ \A u \in BagToSet(tasks') : UploadAnswered(t, u) =>
                 /\ ~u.resp.ok /\ u.resp.text = << "DuplicateDocumentError" >>
                 /\ index' = index /\ staged' = staged /\ lock' = lock]_vars
  /\ [][\A t \in BagToSet(tasks) :
          (UploadEnded(t) /\ t.net = "body" /\ ~t.resp.ok) =>
            /\ uploadMsg' = << "Upload failed:" >> \o t.resp.text
            /\ messages' = messages
            /\ storage' = storage
            /\ ~uploading']_vars

\* the rejection on screen: a.txt keeps its chunks, no line was appended
C8_Witness ==
  /\ uploadMsg = << "Upload failed:", "DuplicateDocumentError" >>
  /\ index["a.txt"] = ChunksOf("a.txt")
  /\ messages = <<>>
  /\ ~uploading

\* a step that ends the fetch of refreshDocs, and the fetch
DocsEnded(t) ==
  /\ t.stage = "docs"
  /\ CopiesIn(t, tasks') < CopiesIn(t, tasks)
  /\ NumStage(tasks', "docs") < NumStage(tasks, "docs")

\* the fetch of /documents failed: no response, an error status or a body that
\* cannot be read
DocsFailed(t) ==
  t.net = "sent" \/ ~t.resp.ok \/ t.resp.kind \in {"garbage", "null"}

\* C9: when refreshDocs completes successfully docs is the received list and
\* every selected name is the file_name of an entry of docs; a failed
\* refreshDocs leaves docs and the selection unchanged.
C9_DocsRefresh ==
  [][\A t \in BagToSet(tasks) : DocsEnded(t) =>
       IF DocsFailed(t)
         THEN docs' = docs /\ selectedFiles' = selectedFiles
         ELSE docs' # docs \/ selectedFiles' # selectedFiles =>
                /\ docs' = t.resp.files
                /\ \A i \in 1..Len(selectedFiles') :
                     \E j \in 1..Len(docs') : docs'[j].file_name = selectedFiles'[i]]_vars

RemovalIssued(t) ==
  /\ t.stage \in {"delete", "clear"} /\ t.net = "sent"
  /\ CopiesIn(t, tasks') > CopiesIn(t, tasks)

\* C13: a DELETE or clear request is issued only by a step whose dialog the
\* user confirmed, for the file the dialog named; a step whose dialog the
\* user declined issues nothing and leaves messages, selection, docs, health
\* state and everything else as they were.
C13_ConfirmGated ==
  /\ [][\A t \in BagToSet(tasks') : RemovalIssued(t) =>
          dialog' = Answered(t.stage, t.arg, TRUE)]_vars
  /\ [][(dialog' # dialog /\ ~dialog'.ok) =>
          /\ tasks' = tasks
          /\ messages' = messages /\ selectedFiles' = selectedFiles /\ docs' = docs
          /\ backendOk' = backendOk /\ chunksIndexed' = chunksIndexed
          /\ storage' = storage /\ docsLoading' = docsLoading]_vars
  /\ [](\A t \in Running : t.op \in {"delete", "clear"} => dialog.shown)

\* the user declined to delete a.txt: nothing is in flight, nothing was said
C13_Witness ==
  /\ dialog = Answered("delete", "a.txt", FALSE)
  /\ tasks = EmptyBag
  /\ messages = <<>>
  /\ DocNames = << "a.txt" >>

\* a step that ends the fetch of a delete or clear, and the fetch
RemovalEnded(t) ==
  /\ t.stage \in {"delete", "clear"}
  /\ CopiesIn(t, tasks') < CopiesIn(t, tasks)
  /\ NumStage(tasks', t.stage) < NumStage(tasks, t.stage)

\* the handler of t goes on to refreshDocs
GoesOnToDocs(t) ==
  \E u \in BagToSet(tasks') :
    /\ u.op = t.op /\ u.stage = "docs" /\ u.net = "sent" /\ u.arg = t.arg
    /\ CopiesIn(u, tasks') > CopiesIn(u, tasks)

\* the handler of t goes on to refreshHealth
GoesOnToHealth(t) ==
  \E u \in BagToSet(tasks') :
    /\ u.op = t.op /\ u.stage = "health" /\ u.net = "sent" /\ u.arg = t.arg
    /\ CopiesIn(u, tasks') > CopiesIn(u, tasks)

\* C14: the step that ends a delete or clear appends exactly one system
\* message and leaves docs alone.  On success (an OK status and a readable
\* body) the message carries the reported count, the selection loses the file
\* (delete) or everything (clear), and the handler refreshes docs and then
\* health.  On a non-OK status, a timeout or an exception the message is an
\* error line, the selection is unchanged and docs is not refreshed.
C14_RemovalOutcome ==
  /\ [][\A t \in BagToSet(tasks) : RemovalEnded(t) =>
          \E m \in { messages'[Len(messages')] } :
            /\ messages' = messages \o << m >>
            /\ m.role = "system"
            /\ docs' = docs
            /\ (t.net = "sent" \/ ~t.resp.ok \/ t.resp.kind \in {"garbage", "null"})
                 => ~GoesOnToDocs(t)
            /\ IF GoesOnToDocs(t)
                 THEN /\ t.net = "body" /\ t.resp.ok
                      /\ Head(m.content) = IF t.stage = "delete" THEN "Document supprime:"
                                                                 ELSE "Index vide"
                      /\ t.resp.kind = "obj" => m.content[Len(m.content)] = Str(t.resp.num)
                      /\ \A f \in Files :
                           Includes(selectedFiles', f)
                             <=> (Includes(selectedFiles, f) /\ t.stage = "delete" /\ f # t.arg)
                      /\ docsLoading'
                 ELSE /\ Head(m.content) = "Erreur"
                      /\ selectedFiles' = selectedFiles
                      /\ storage'.selected = storage.selected
                      /\ docsLoading' = docsLoading]_vars
  /\ [][\A t \in BagToSet(tasks) :
          (t.op \in {"delete", "clear"} /\ t.stage = "docs"
             /\ CopiesIn(t, tasks') < CopiesIn(t, tasks)
             /\ NumStage(tasks', "docs") < NumStage(tasks, "docs"))
            => GoesOnToHealth(t)]_vars

\* a.txt with its two chunks was deleted: the line reports 2, a.txt is not
\* selected and the handler is refreshing docs
C14_Witness ==
  /\ Len(messages) = 1
  /\ messages[1] = SystemMsg(<< "Document supprime:", "a.txt", "(chunks supprimes:", "2" >>)
  /\ ~Includes(selectedFiles, "a.txt")
  /\ \E u \in Running : u.op = "delete" /\ u.stage = "docs"

====
